---- MODULE Spec2Model ----
(***************************************************************************)
(* A model of submeta-dl.py: main() fetches a course page, parses the      *)
(* embedded JSON into a Course (ordered mapping chapter -> ordered mapping *)
(* video -> id), logs in, and downloader() walks the course, resolving and *)
(* downloading every video.                                                *)
(*                                                                         *)
(* Python values are tagged records: [t |-> "None"], [t |-> "str", v |->   *)
(* <<chars>>], [t |-> "int", v |-> n], [t |-> "dict", v |-> function from  *)
(* key strings], [t |-> "list", v |-> sequence], [t |-> "odict", v |->     *)
(* sequence of [key, val]] (a dict whose keys are computed strings, in     *)
(* insertion order).  A string is a sequence of characters, each character *)
(* a one-element TLA+ string; "U+00E9" stands for the single character     *)
(* e-acute and "U+00B2" for the single character superscript two.          *)
(***************************************************************************)
EXTENDS Integers, Sequences, FiniteSets, TLC

VARIABLES pc, args, json_data, course, login_resp, token, ci, vi,
          served, io, log, out, ret, exit_status, uncaught, filename, clean

vars == <<pc, args, json_data, course, login_resp, token, ci, vi,
          served, io, log, out, ret, exit_status, uncaught, filename, clean>>

-----------------------------------------------------------------------------
(* Bounds of the model *)

MaxArgc == 4
MaxChapters == 2
MaxItems == 3
MaxVideos == 2
MaxLen == 3

-----------------------------------------------------------------------------
(* Python values *)

None == [t |-> "None"]
PyStr(s) == [t |-> "str", v |-> s]
PyInt(n) == [t |-> "int", v |-> n]
\* a dict parsed from a JSON object, built from its <<key, value>> pairs in
\* document order (the keys distinct): the keys in that order, which is the
\* order Python iterates them in, and the value of each key
PyDict(items) ==
  [t |-> "dict",
   keys |-> [i \in 1..Len(items) |-> items[i][1]],
   v |-> [k \in {items[i][1] : i \in 1..Len(items)} |->
            items[CHOOSE i \in 1..Len(items) : items[i][1] = k][2]]]
PyList(s) == [t |-> "list", v |-> s]
PyODict(s) == [t |-> "odict", v |-> s]
EmptyObj == PyDict(<<>>)
\* the object of one key
Obj(k, x) == PyDict(<< <<k, x>> >>)

\* bool(x) for the values the program tests with "if x" / "if not x"
Truthy(x) ==
  CASE x.t = "None" -> FALSE
    [] x.t = "str" -> Len(x.v) > 0
    [] x.t = "int" -> x.v # 0
    [] x.t = "dict" -> DOMAIN x.v # {}
    [] x.t = "list" -> Len(x.v) > 0
    [] x.t = "odict" -> Len(x.v) > 0
    [] OTHER -> TRUE

\* the result of an expression: the exception it raised ("" for none) and its value
Ok(v) == [exc |-> "", val |-> v]
Raise(e) == [exc |-> e, val |-> None]

\* the keys the program subscripts with, as strings
k_props == <<"p", "r", "o", "p", "s">>
k_pageProps == <<"p", "a", "g", "e", "P", "r", "o", "p", "s">>
k_course == <<"c", "o", "u", "r", "s", "e">>
k_chapters == <<"c", "h", "a", "p", "t", "e", "r", "s">>
k_title == <<"t", "i", "t", "l", "e">>
k_contents == <<"c", "o", "n", "t", "e", "n", "t", "s">>
k_typename == <<"_", "_", "t", "y", "p", "e", "n", "a", "m", "e">>
k_id == <<"i", "d">>
k_data == <<"d", "a", "t", "a">>
k_login == <<"l", "o", "g", "i", "n">>
k_token == <<"t", "o", "k", "e", "n">>
k_result == <<"r", "e", "s", "u", "l", "t">>
k_video == <<"v", "i", "d", "e", "o">>
k_videoRef == <<"v", "i", "d", "e", "o", "R", "e", "f">>
k_errors == <<"e", "r", "r", "o", "r", "s">>

\* x[k] with k a string key
GetItem(x, k) ==
  IF x.t = "dict"
  THEN IF k \in DOMAIN x.v THEN Ok(x.v[k]) ELSE Raise("KeyError")
  ELSE Raise("TypeError")

\* x[keys[1]][keys[2]]... evaluated left to right
RECURSIVE GetPath(_, _)
GetPath(x, keys) ==
  IF keys = <<>> THEN Ok(x)
  ELSE LET r == GetItem(x, Head(keys))
       IN IF r.exc # "" THEN r ELSE GetPath(r.val, Tail(keys))

DigitChars == <<"0", "1", "2", "3", "4", "5", "6", "7", "8", "9">>

\* str(n) for a natural number n
RECURSIVE Digits(_)
Digits(n) ==
  IF n < 10 THEN <<DigitChars[n + 1]>>
  ELSE Digits(n \div 10) \o <<DigitChars[(n % 10) + 1]>>

\* str(n) for an int
IntStr(n) == IF n < 0 THEN <<"-">> \o Digits(0 - n) ELSE Digits(n)

\* the quote repr() puts around a string: the single quote, unless the
\* string holds one and no double quote
ReprQuote(s) ==
  IF (\E i \in DOMAIN s : s[i] = "'") /\ ~(\E i \in DOMAIN s : s[i] = "\"")
  THEN "\"" ELSE "'"

\* repr() of a string of printable characters: quoted, the backslash and
\* the quote escaped
RECURSIVE ReprChars(_, _, _)
ReprChars(s, i, q) ==
  IF i > Len(s) THEN <<>>
  ELSE (IF s[i] = "\\" \/ s[i] = q THEN <<"\\", s[i]>> ELSE <<s[i]>>)
         \o ReprChars(s, i + 1, q)

\* repr(x) of a value parsed from JSON
RECURSIVE Repr(_)
RECURSIVE ReprElems(_, _)
RECURSIVE ReprItems(_, _)
Repr(x) ==
  CASE x.t = "str" ->
         LET q == ReprQuote(x.v) IN <<q>> \o ReprChars(x.v, 1, q) \o <<q>>
    [] x.t = "None" -> <<"N", "o", "n", "e">>
    [] x.t = "int" -> IntStr(x.v)
    [] x.t = "list" -> <<"[">> \o ReprElems(x.v, 1) \o <<"]">>
    [] x.t = "dict" -> <<"{">> \o ReprItems(x, 1) \o <<"}">>

ReprElems(l, i) ==
  IF i > Len(l) THEN <<>>
  ELSE (IF i > 1 THEN <<",", " ">> ELSE <<>>) \o Repr(l[i]) \o ReprElems(l, i + 1)

ReprItems(d, i) ==
  IF i > Len(d.keys) THEN <<>>
  ELSE (IF i > 1 THEN <<",", " ">> ELSE <<>>)
         \o Repr(PyStr(d.keys[i])) \o <<":", " ">> \o Repr(d.v[d.keys[i]])
         \o ReprItems(d, i + 1)

\* what an f-string makes of a value: str(x), which is x for a string and
\* repr(x) for the other values
Str(x) == IF x.t = "str" THEN x.v ELSE Repr(x)

-----------------------------------------------------------------------------
(* sanitize_filename *)

AsciiLetters ==
  {"a", "b", "c", "d", "e", "f", "g", "h", "i", "j", "k", "l", "m",
   "n", "o", "p", "q", "r", "s", "t", "u", "v", "w", "x", "y", "z",
   "A", "B", "C", "D", "E", "F", "G", "H", "I", "J", "K", "L", "M",
   "N", "O", "P", "Q", "R", "S", "T", "U", "V", "W", "X", "Y", "Z"}
AsciiDigits == {DigitChars[i] : i \in 1..10}
\* characters outside ASCII for which str.isalnum() is true
UnicodeAlnum == {"U+00E9", "U+00B2"}

\* c.isalnum()
isalnum(c) == c \in AsciiLetters \cup AsciiDigits \cup UnicodeAlnum

sanitize_char(c) == IF isalnum(c) \/ c \in {" ", ".", "_"} THEN c ELSE "_"

sanitize_drop(s) == SelectSeq(s, LAMBDA c : isalnum(c) \/ c \in {" ", ".", "_"})

sanitize_filename(s) == [i \in 1..Len(s) |-> sanitize_char(s[i])]

-----------------------------------------------------------------------------
(* Ordered dicts with computed keys: sequences of [key, val] *)

Keys(d) == [i \in 1..Len(d) |-> d[i].key]

\* list.index(x), 0-based; the callers only look up elements that are present
ListIndex(l, x) == (CHOOSE i \in 1..Len(l) : l[i] = x /\ \A j \in 1..(i - 1) : l[j] # x) - 1

HasKey(d, k) == \E i \in 1..Len(d) : d[i].key = k

\* d[k] = v: a new key is appended, an existing key keeps its position
DictSet(d, k, v) ==
  IF HasKey(d, k)
  THEN [i \in 1..Len(d) |-> IF d[i].key = k THEN [key |-> k, val |-> v] ELSE d[i]]
  ELSE Append(d, [key |-> k, val |-> v])

\* d[k] for a key that is present
DictGet(d, k) == d[ListIndex(Keys(d), k) + 1].val

-----------------------------------------------------------------------------
(* get_course *)

IsVideo(tn) == tn.t = "str" /\ tn.v = <<"V", "i", "d", "e", "o">>

\* "for c in x": the elements a for loop or a comprehension draws from x,
\* the characters of a string, the elements of a list, the keys of a dict;
\* TypeError when x is not iterable
Iterate(x) ==
  CASE x.t = "str" -> [exc |-> "", val |-> [i \in 1..Len(x.v) |-> PyStr(<<x.v[i]>>)]]
    [] x.t = "list" -> [exc |-> "", val |-> x.v]
    [] x.t = "dict" ->
         [exc |-> "", val |-> [i \in 1..Len(x.keys) |-> PyStr(x.keys[i])]]
    [] OTHER -> [exc |-> "TypeError", val |-> <<>>]

\* s.isalnum() for a string s: non-empty and alphanumeric throughout
StrIsAlnum(s) == Len(s) > 0 /\ \A i \in DOMAIN s : isalnum(s[i])

\* line 81 for one element c of the argument: c.isalnum() raises
\* AttributeError when c is no string
sanitize_element(c) ==
  IF c.t # "str" THEN Raise("AttributeError")
  ELSE Ok(PyStr(IF StrIsAlnum(c.v) \/ c.v \in {<<" ">>, <<".">>, <<"_">>}
                THEN c.v ELSE <<"_">>))

\* line 81: the comprehension over the elements, joined
RECURSIVE SanitizeElems(_, _, _)
SanitizeElems(elems, i, acc) ==
  IF i > Len(elems) THEN [exc |-> "", val |-> acc]
  ELSE LET r == sanitize_element(elems[i])
       IN IF r.exc # "" THEN [exc |-> r.exc, val |-> <<>>]
          ELSE SanitizeElems(elems, i + 1, acc \o r.val.v)

\* sanitize_filename applied to any value: it iterates its argument, so a
\* list or dict of strings is accepted as a string is
SanitizeValue(x) ==
  IF x.t = "str" THEN [exc |-> "", val |-> sanitize_filename(x.v)]
  ELSE LET it == Iterate(x)
       IN IF it.exc # "" THEN [exc |-> it.exc, val |-> <<>>]
          ELSE SanitizeElems(it.val, 1, <<>>)

\* lines 67-70: the loop over chapter['contents'], filling course[chapter_title]
RECURSIVE VideoLoop(_, _, _)
VideoLoop(contents, j, chap) ==
  IF j > Len(contents) THEN Ok(chap)
  ELSE LET video == contents[j]
           tn == GetItem(video, k_typename)
       IN IF tn.exc # "" THEN Raise(tn.exc)
          ELSE IF ~IsVideo(tn.val) THEN VideoLoop(contents, j + 1, chap)
          ELSE LET title == GetItem(video, k_title)
               IN IF title.exc # "" THEN Raise(title.exc)
                  ELSE LET video_title == SanitizeValue(title.val)
                           id == GetItem(video, k_id)
                       IN IF video_title.exc # "" THEN Raise(video_title.exc)
                          ELSE IF id.exc # "" THEN Raise(id.exc)
                          ELSE VideoLoop(contents, j + 1, DictSet(chap, video_title.val, id.val))

\* lines 64-70: the loop over the chapters
RECURSIVE ChapterLoop(_, _, _)
ChapterLoop(chapters, k, crs) ==
  IF k > Len(chapters) THEN Ok(PyODict(crs))
  ELSE LET chapter == chapters[k]
           title == GetItem(chapter, k_title)
       IN IF title.exc # "" THEN Raise(title.exc)
          ELSE LET chapter_title == SanitizeValue(title.val)
               IN IF chapter_title.exc # "" THEN Raise(chapter_title.exc)
                  ELSE LET contents == GetItem(chapter, k_contents)
                       IN IF contents.exc # "" THEN Raise(contents.exc)
                          ELSE LET videos == Iterate(contents.val)
                               IN IF videos.exc # "" THEN Raise(videos.exc)
                                  ELSE LET chap == VideoLoop(videos.val, 1, <<>>)
                                       IN IF chap.exc # "" THEN Raise(chap.exc)
                                          ELSE ChapterLoop(chapters, k + 1,
                                                 DictSet(crs, chapter_title.val, chap.val))

\* lines 62-71: the body of the try block
get_course_body(jd) ==
  LET chapters == GetPath(jd, <<k_props, k_pageProps, k_course, k_chapters>>)
  IN IF chapters.exc # "" THEN Raise(chapters.exc)
     ELSE LET it == Iterate(chapters.val)
          IN IF it.exc # "" THEN Raise(it.exc)
             ELSE ChapterLoop(it.val, 1, <<>>)

LogEntry(level, msg, name, exc) == [level |-> level, msg |-> msg, name |-> name, exc |-> exc]

\* get_course: the value returned and the log lines written
get_course(jd) ==
  LET r == get_course_body(jd)
  IN IF r.exc = "" THEN [val |-> r.val, logs |-> <<>>]
     ELSE IF r.exc = "KeyError"
     THEN [val |-> None,
           logs |-> <<LogEntry("ERROR", "KeyError while parsing course JSON", <<>>, r.exc)>>]
     ELSE [val |-> None,
           logs |-> <<LogEntry("ERROR", "Unexpected error while parsing course data", <<>>, r.exc)>>]

-----------------------------------------------------------------------------
(* Course payloads: the JSON document embedded in the course page *)

RECURSIVE SumTo(_, _)
SumTo(sh, k) == IF k = 0 THEN 0 ELSE sh[k] + SumTo(sh, k - 1)

\* the numbers of content items of n chapters, at most m in all
Shapes(n, m) == {sh \in [1..n -> 0..m] : SumTo(sh, n) <= m}

\* title choice 0 is a title unique to the position; 1 and 2 are two titles
\* that differ only in a character sanitize_filename replaces
ChapterTitle(k, c) ==
  CASE c = 0 -> <<"C", "/">> \o Digits(k)
    [] c = 1 -> <<"a", "/">>
    [] OTHER -> <<"a", ":">>

VideoTitle(j, c) ==
  CASE c = 0 -> <<"v", "-">> \o Digits(j)
    [] c = 1 -> <<"x", "?">>
    [] OTHER -> <<"x", "!">>

ItemId(k, j) == PyInt(10 * k + j)

\* the __typename of a content item
TypeName(tag) == IF tag = "Video" THEN <<"V", "i", "d", "e", "o">> ELSE <<"A", "r", "t", "i", "c", "l", "e">>

Item(k, j, choice) ==
  PyDict(<< <<k_typename, PyStr(TypeName(choice[1]))>>,
            <<k_title, PyStr(VideoTitle(j, choice[2]))>>,
            <<k_id, ItemId(k, j)>> >>)

Chapter(k, c, items) ==
  PyDict(<< <<k_title, PyStr(ChapterTitle(k, c))>>, <<k_contents, PyList(items)>> >>)

CoursePayload(chapters) ==
  Obj(k_props, Obj(k_pageProps, Obj(k_course, Obj(k_chapters, PyList(chapters)))))

BuildChapters(sh, ct, it) ==
  [k \in 1..Len(sh) |->
     Chapter(k, ct[k], [j \in 1..sh[k] |-> Item(k, j, it[SumTo(sh, k - 1) + j])])]

\* jd is a well-formed payload within the bounds, for the given title and
\* item choices
IsPayload(jd, TitleChoices, ItemChoices) ==
  \E n \in 0..MaxChapters :
    \E sh \in Shapes(n, MaxItems) :
      \E ct \in [1..n -> TitleChoices] :
        \E it \in [1..SumTo(sh, n) -> ItemChoices] :
          jd = CoursePayload(BuildChapters(sh, ct, it))

\* the chapters list and the items of chapter k of a well-formed payload
ChaptersOf(jd) == jd.v[k_props].v[k_pageProps].v[k_course].v[k_chapters].v
ContentsOf(ch) == ch.v[k_contents].v
VideosOf(ch) == SelectSeq(ContentsOf(ch), LAMBDA item : IsVideo(item.v[k_typename]))

-----------------------------------------------------------------------------
(* The HTTP session (create_session) and what a request through it raises *)

MAX_RETRIES == 3
status_forcelist == {429, 500, 502, 503, 504}

\* a response as the session finally delivers it: the transport's outcome
\* (net), the status of the last answer, and the body
\* retrying counts the attempts urllib3 repeated after a broken connection
\* before the session delivered this outcome
NetFail(e, n) == [net |-> e, status |-> 0, body |-> None, retrying |-> n]
Http(status, body) == [net |-> "ok", status |-> status, body |-> body, retrying |-> 0]
Retried(resp, n) == [resp EXCEPT !.retrying = n]

\* the body of an answer that is no JSON document
NotJson == [t |-> "notjson"]

\* session.get / session.post followed by response.raise_for_status(): the
\* exception raised, "" for none.  The mounted Retry retries the statuses of
\* status_forcelist for idempotent methods only (GET here, not POST) and
\* gives up with a RetryError; any other 4xx/5xx status reaches
\* raise_for_status, which raises HTTPError.
Send(method, resp) ==
  IF resp.net # "ok" THEN resp.net
  ELSE IF method = "GET" /\ resp.status \in status_forcelist THEN "RetryError"
  ELSE IF resp.status >= 400 /\ resp.status < 600 THEN "HTTPError"
  ELSE ""

\* the lines urllib3 writes through the root logger line 16 configures: one
\* WARNING "Retrying (...) after connection broken by ..." per repeated
\* attempt
RetryWarnings(resp) ==
  [i \in 1..resp.retrying |->
     [level |-> "WARNING", msg |-> "Retrying after connection broken", name |-> <<>>,
      exc |-> ""]]

\* response.json() / json.loads
ParseJson(body) == IF body.t = "notjson" THEN Raise("JSONDecodeError") ELSE Ok(body)

\* the classes named by "except (HTTPError, ConnectionError, Timeout)"
IsNetworkError(e) == e \in {"HTTPError", "ConnectionError", "Timeout"}

-----------------------------------------------------------------------------
(* get_json *)

\* a page body: whether it holds an element with type="application/json"
\* ("absent", "empty" for one without children, "present"), and its text
Html(elem, text) == [t |-> "html", elem |-> elem, text |-> text]

\* lines 45-52: [exc, val, found]; found is FALSE when the function falls
\* through to "No JSON data found"
get_json_body(resp) ==
  LET e == Send("GET", resp)
  IN IF e # "" THEN [exc |-> e, val |-> None, found |-> FALSE]
     ELSE IF resp.body.elem # "present" THEN [exc |-> "", val |-> None, found |-> FALSE]
     ELSE LET r == ParseJson(resp.body.text)
          IN [exc |-> r.exc, val |-> r.val, found |-> r.exc = ""]

get_json(resp) ==
  LET r == get_json_body(resp)
      w == RetryWarnings(resp)
  IN IF r.exc # ""
     THEN [val |-> None,
           logs |-> w \o <<LogEntry("ERROR",
                               IF IsNetworkError(r.exc)
                               THEN "Network error while retrieving JSON"
                               ELSE "Unexpected error while retrieving JSON", <<>>, r.exc)>>]
     ELSE IF ~r.found
     THEN [val |-> None,
           logs |-> w \o <<LogEntry("ERROR", "No JSON data found at URL", <<>>, "")>>]
     ELSE [val |-> r.val, logs |-> w]

-----------------------------------------------------------------------------
(* get_token *)

\* lines 124-132: [exc, val]; val is the token returned, None when the
\* function falls through to "Login failed"
get_token_body(resp) ==
  LET e == Send("POST", resp)
  IN IF e # "" THEN Raise(e)
     ELSE LET data == ParseJson(resp.body)
          IN IF data.exc # "" THEN Raise(data.exc)
             ELSE LET login == GetPath(data.val, <<k_data, k_login>>)
                  IN IF login.exc # "" THEN Raise(login.exc)
                     ELSE IF login.val.t # "dict" THEN Raise("AttributeError")
                     ELSE LET tok == IF k_token \in DOMAIN login.val.v
                                     THEN login.val.v[k_token] ELSE None
                          IN IF Truthy(tok) THEN Ok(tok) ELSE Ok(None)

\* the exceptions the handlers of lines 133-136 catch
get_token_catches_network_only(e) == IsNetworkError(e)

get_token_catches(e) == IsNetworkError(e) \/ TRUE

\* get_token: the exception that leaves it ("" for none), the value
\* returned, the log lines and the lines printed
get_token(resp) ==
  LET r == get_token_body(resp)
      w == RetryWarnings(resp)
  IN IF r.exc # ""
     THEN IF get_token_catches(r.exc)
          THEN [exc |-> "", val |-> None, prints |-> <<>>,
                logs |-> w \o <<LogEntry("ERROR",
                                    IF IsNetworkError(r.exc)
                                    THEN "Network error during login"
                                    ELSE "Unexpected error during login", <<>>, r.exc)>>]
          ELSE [exc |-> r.exc, val |-> None, prints |-> <<>>, logs |-> w]
     ELSE IF Truthy(r.val)
     THEN [exc |-> "", val |-> r.val, prints |-> <<"Login successful! Token obtained">>,
           logs |-> w \o <<LogEntry("INFO", "Login successful!", <<>>, "")>>]
     ELSE [exc |-> "", val |-> None, prints |-> <<>>,
           logs |-> w \o <<LogEntry("ERROR", "Login failed. Response", <<>>, "")>>]

-----------------------------------------------------------------------------
(* downloader *)

url_prefix == "https://customer-3j2pofw9vdbl9sfy.cloudflarestream.com/"
url_suffix == "/manifest/video.mpd"

\* the options handed to yt_dlp.YoutubeDL that decide how a failure surfaces
ydl_opts == [ignoreerrors |-> TRUE, external_downloader |-> "aria2c", quiet |-> TRUE]

\* an external effect of the run, in the order the program causes them
Ev(op, id, path, url) == [op |-> op, id |-> id, path |-> path, url |-> url]

\* a path is the sequence of its components (os.path.join appends one)
download_path(argv) == IF Len(argv) = 3 THEN argv[3] ELSE <<"submeta-downloads">>

chapter_index_zero_based(crs, chapter) == ListIndex(Keys(crs), chapter)

chapter_index(crs, chapter) == ListIndex(Keys(crs), chapter) + 1

chapter_path(crs, argv, chapter) ==
  <<download_path(argv),
    Digits(chapter_index(crs, chapter)) \o <<".", " ">> \o sanitize_filename(chapter)>>

video_index(chap, video) == ListIndex(Keys(chap), video) + 1

video_filename(chap, video) ==
  Digits(video_index(chap, video)) \o <<".", " ">> \o sanitize_filename(video)

video_filepath(cpath, fname) == Append(cpath, fname \o <<".", "%(ext)s">>)

\* lines 215-216, yt_dlp.YoutubeDL(ydl_opts) and ydl.download([url]): the
\* download succeeds, it fails with a DownloadError, or the tool raises an
\* exception of another class (RuntimeError here)
DlOutcomes == {"ok", "DownloadError", "RuntimeError"}

\* the exception that leaves lines 215-216 under opts, "" for none.  With
\* ignoreerrors set, yt-dlp reports a DownloadError and returns.
ydl_download(opts, dl) ==
  CASE dl = "ok" -> ""
    [] dl = "DownloadError" -> IF opts.ignoreerrors THEN "" ELSE dl
    [] OTHER -> dl

\* lines 198-217: the body of the try block for one video: the exception
\* that ends it ("" for none), whether the download tool was invoked, and
\* the manifest URL built
video_body(resp, dl) ==
  LET e == Send("POST", resp)
  IN IF e # "" THEN [exc |-> e, invoked |-> FALSE, url |-> <<>>]
     ELSE LET data == ParseJson(resp.body)
          IN IF data.exc # "" THEN [exc |-> data.exc, invoked |-> FALSE, url |-> <<>>]
             ELSE LET video_token == GetPath(data.val, <<k_data, k_result, k_video, k_token>>)
                  IN IF video_token.exc # ""
                     THEN [exc |-> video_token.exc, invoked |-> FALSE, url |-> <<>>]
                     ELSE [exc |-> ydl_download(ydl_opts, dl), invoked |-> TRUE,
                           url |-> <<url_prefix>> \o Str(video_token.val) \o <<url_suffix>>]

\* what the download tool can do for this response: it is not run when the
\* try block ends before line 215
ToolOutcomes(resp) ==
  IF video_body(resp, "ok").invoked THEN DlOutcomes ELSE {"not_run"}

\* the exceptions the handlers of lines 218-221 catch
downloader_misses_network_errors(e) == ~IsNetworkError(e)

downloader_catches(e) == IsNetworkError(e) \/ TRUE

\* the log line of one video (lines 217-221)
video_log(exc, fname) ==
  IF exc = "" THEN LogEntry("INFO", "Successfully downloaded", fname, "")
  ELSE IF IsNetworkError(exc) THEN LogEntry("ERROR", "Network error while downloading", fname, exc)
  ELSE LogEntry("ERROR", "Failed to download", fname, exc)

-----------------------------------------------------------------------------
(* main: the checks that abort the run, and the entry point *)

wrong_argc(argv) == Len(argv) \notin {2, 3}

json_check(jd) == ~Truthy(jd)

course_check_inverted(crs) == Truthy(crs)

course_check(crs) == ~Truthy(crs)

token_check(tok) == ~Truthy(tok)

\* lines 252-253: main(sys.argv) is a bare call; its return value is dropped
\* and the interpreter ends with status 0 (1 after an uncaught exception)
entry_point_status(crashed, retval) == IF crashed THEN 1 ELSE 0

Unset == [t |-> "unset"]

-----------------------------------------------------------------------------
(* What the environment can answer *)

Argv(n) == [i \in 1..n |-> <<"argv">> \o Digits(i - 1)]

\* the run is checked on payloads of Video items with distinct titles; the
\* items of other types and the colliding titles are SpecCourse's
MainItemChoices == {<<"Video", 0>>}

MalformedPayloads ==
  { EmptyObj,
    None,
    Obj(k_props, Obj(k_pageProps, EmptyObj)),
    Obj(k_props, None),
    CoursePayload(<<Obj(k_contents, PyList(<<>>))>>),
    CoursePayload(<<PyDict(<< <<k_title, PyStr(<<"C">>)>>, <<k_contents, None>> >>)>>),
    CoursePayload(<<PyDict(<< <<k_title, PyList(<<PyInt(1)>>)>>,
                              <<k_contents, PyList(<<>>)>> >>)>>) }

\* payloads get_course accepts although a value it iterates is no list and
\* a title no string: chapters an empty object; a title that is a list of
\* strings; a title that is an object, whose keys are joined in document
\* order ("idtitle"); a title with letters outside ASCII
UnusualPayloads ==
  { Obj(k_props, Obj(k_pageProps, Obj(k_course, Obj(k_chapters, EmptyObj)))),
    CoursePayload(<<PyDict(<< <<k_title, PyList(<<PyStr(<<"a">>), PyStr(<<"/">>)>>)>>,
                              <<k_contents, EmptyObj>> >>)>>),
    CoursePayload(<<PyDict(<< <<k_title, PyDict(<< <<k_id, PyInt(2)>>, <<k_title, PyInt(1)>> >>)>>,
                              <<k_contents, PyStr(<<>>)>> >>)>>),
    CoursePayload(<<PyDict(<< <<k_title, PyStr(<<"U+00E9", "/", "U+00B2">>)>>,
                              <<k_contents, PyList(<<>>)>> >>)>>) }

\* the answers to the page request other than the well-formed course
\* payloads GetJson builds within the bounds
OtherPages ==
  { NetFail("ConnectionError", MAX_RETRIES), NetFail("Timeout", MAX_RETRIES),
    Retried(Http(200, Html("absent", None)), 1),
    Http(404, Html("absent", None)), Http(503, Html("absent", None)),
    Http(200, Html("absent", None)), Http(200, Html("empty", None)),
    Http(200, Html("present", NotJson)) }
  \cup { Http(200, Html("present", p)) : p \in MalformedPayloads \cup UnusualPayloads }

LoginBody(login) == Obj(k_data, Obj(k_login, login))
TokenOk == PyStr(<<"T">>)

LoginResponses ==
  { NetFail("ConnectionError", MAX_RETRIES), NetFail("Timeout", 0),
    Http(401, NotJson), Http(200, NotJson),
    Http(200, Obj(k_errors, PyList(<<>>))),
    Http(200, Obj(k_data, None)),
    Http(200, Obj(k_data, EmptyObj)),
    Http(200, LoginBody(None)),
    Http(200, LoginBody(Obj(k_errors, PyList(<<>>)))),
    Http(200, LoginBody(Obj(k_token, None))),
    Http(200, LoginBody(Obj(k_token, PyStr(<<>>)))),
    Http(200, LoginBody(Obj(k_token, TokenOk))) }

VideoBody(video) == Obj(k_data, Obj(k_result, Obj(k_video, video)))
StreamToken == PyStr(<<"S">>)

VideoResponses ==
  { NetFail("ConnectionError", MAX_RETRIES), NetFail("Timeout", 0),
    Http(503, NotJson),
    Http(200, VideoBody(None)),
    Http(200, VideoBody(Obj(k_videoRef, PyStr(<<"r">>)))),
    Http(200, VideoBody(Obj(k_token, None))),
    Http(200, VideoBody(Obj(k_token, StreamToken))) }

-----------------------------------------------------------------------------
(* The run of the script: main(sys.argv) *)

Init ==
  /\ pc = "main"
  /\ args \in {Argv(n) : n \in 1..MaxArgc}
  /\ json_data = None
  /\ course = None
  /\ login_resp = None
  /\ token = None
  /\ ci = 0
  /\ vi = 0
  /\ served = <<>>
  /\ io = <<>>
  /\ log = <<>>
  /\ out = <<>>
  /\ ret = Unset
  /\ exit_status = Unset
  /\ uncaught = ""
  /\ filename = <<>>
  /\ clean = <<>>

\* main returns retval after printing msgs, and the entry point (lines
\* 252-253) ends the process
Return(msgs, retval) ==
  /\ out' = out \o msgs
  /\ ret' = retval
  /\ exit_status' = PyInt(entry_point_status(FALSE, retval))
  /\ pc' = "exited"
  /\ UNCHANGED uncaught

\* the exception e leaves main: the interpreter prints the traceback and ends
Crash(e) ==
  /\ exit_status' = PyInt(entry_point_status(TRUE, ret))
  /\ uncaught' = e
  /\ pc' = "crashed"
  /\ UNCHANGED <<out, ret>>

Continue(to) ==
  /\ pc' = to
  /\ UNCHANGED <<out, ret, exit_status, uncaught>>

\* lines 225-229
CheckArgs ==
  /\ pc = "main"
  /\ IF wrong_argc(args)
     THEN Return(<<"usage: submeta-dl.py <URL> <download path(optional)>">>, PyInt(-1))
     ELSE Continue("get_json")
  /\ UNCHANGED <<args, json_data, course, login_resp, token, ci, vi, served,
                 io, log, filename, clean>>

\* lines 231-234, the page request answered by resp
GetJsonWith(resp) ==
  LET r == get_json(resp)
  IN /\ io' = Append(io, Ev("GET", None, <<args[2]>>, <<>>))
     /\ log' = log \o r.logs
     /\ json_data' = r.val
     /\ IF json_check(r.val)
        THEN Return(<<"Failed to retrieve JSON data. Check the URL or logs for more information.">>,
                    PyInt(-1))
        ELSE Continue("get_course")

GetJson ==
  /\ pc = "get_json"
  /\ \/ \E resp \in OtherPages : GetJsonWith(resp)
     \/ \E n \in 0..MaxChapters :
          \E sh \in Shapes(n, MaxVideos) :
            \E it \in [1..SumTo(sh, n) -> MainItemChoices] :
              GetJsonWith(Http(200, Html("present",
                  CoursePayload(BuildChapters(sh, [k \in 1..n |-> 0], it)))))
  /\ UNCHANGED <<args, course, login_resp, token, ci, vi, served, filename, clean>>

\* lines 236-239
GetCourse ==
  /\ pc = "get_course"
  /\ LET r == get_course(json_data)
     IN /\ log' = log \o r.logs
        /\ course' = r.val
        /\ IF course_check(r.val)
           THEN Return(<<"Failed to parse course data. Check logs for more information.">>,
                       PyInt(-1))
           ELSE Continue("login")
  /\ UNCHANGED <<args, json_data, login_resp, token, ci, vi, served, io,
                 filename, clean>>

\* a name holds a character outside ASCII (sanitize_filename keeps those
\* for which str.isalnum() is true)
NonAscii(name) == \E i \in DOMAIN name : name[i] \in UnicodeAlnum

\* the exceptions os.makedirs raises
MakedirsErrors == {"OSError", "UnicodeEncodeError"}

\* what os.makedirs(path, exist_ok=True) does for the last component name:
\* it creates the directory; it raises OSError (the path or a parent is a
\* regular file, the name is too long, the parent is not writable); or, for
\* a name with a character the filesystem encoding lacks, UnicodeEncodeError
MakedirsOutcomes(name) ==
  {"ok", "OSError"} \cup (IF NonAscii(name) THEN {"UnicodeEncodeError"} ELSE {})

\* the exceptions input() and getpass.getpass() raise: standard input is at
\* its end, or holds bytes its encoding does not decode
PromptErrors == {"EOFError", "UnicodeDecodeError"}

\* what the two prompts do: both return a line, or the first or the second
\* of them raises
PromptOutcomes ==
  {[at |-> "none", exc |-> ""]}
    \cup {[at |-> a, exc |-> e] : a \in {"username", "password"}, e \in PromptErrors}

\* lines 241-246: the two prompts, then get_token.  The prompts are outside
\* any try block, so their EOFError leaves main.
Login ==
  /\ pc = "login"
  /\ \E pr \in PromptOutcomes :
       IF pr.at # "none"
       THEN /\ io' = io \o (IF pr.at = "username"
                            THEN <<Ev("prompt_username", None, <<>>, <<>>)>>
                            ELSE <<Ev("prompt_username", None, <<>>, <<>>),
                                   Ev("prompt_password", None, <<>>, <<>>)>>)
            /\ Crash(pr.exc)
            /\ UNCHANGED <<login_resp, log, token>>
       ELSE \E resp \in LoginResponses :
              LET r == get_token(resp)
              IN /\ login_resp' = resp
                 /\ io' = io \o <<Ev("prompt_username", None, <<>>, <<>>),
                                  Ev("prompt_password", None, <<>>, <<>>),
                                  Ev("POST_login", None, <<>>, <<>>)>>
                 /\ log' = log \o r.logs
                 /\ token' = r.val
                 /\ IF r.exc # "" THEN Crash(r.exc)
                    ELSE IF token_check(r.val)
                    THEN Return(r.prints
                                \o <<"Failed to login. Check credentials or logs for more information.">>,
                                PyInt(-1))
                    ELSE /\ out' = out \o r.prints
                         /\ pc' = "downloader"
                         /\ UNCHANGED <<ret, exit_status, uncaught>>
  /\ UNCHANGED <<args, json_data, course, ci, vi, served, filename, clean>>

\* lines 151-154: downloader creates the destination root, outside any try
\* block, and starts the loop over the chapters
DownloaderStart ==
  /\ pc = "downloader"
  /\ \E mk \in MakedirsOutcomes(download_path(args)) :
       IF mk # "ok"
       THEN /\ Crash(mk)
            /\ UNCHANGED <<io, ci>>
       ELSE /\ io' = Append(io, Ev("makedirs", None, <<download_path(args)>>, <<>>))
            /\ IF course.t # "odict"
               THEN /\ Crash("TypeError")
                    /\ UNCHANGED ci
               ELSE /\ ci' = 1
                    /\ Continue("chapter")
  /\ UNCHANGED <<args, json_data, course, login_resp, token, vi, served, log,
                 filename, clean>>

\* lines 154-160, one turn of the loop over the chapters, up to the first
\* video of the chapter; os.makedirs is outside any try block; when the
\* chapters are exhausted downloader returns and main prints line 249
ChapterStep ==
  /\ pc = "chapter"
  /\ IF ci > Len(course.v)
     THEN /\ Return(<<"Download complete!">>, None)
          /\ UNCHANGED <<io, ci, vi>>
     ELSE \E mk \in MakedirsOutcomes(chapter_path(course.v, args, course.v[ci].key)[2]) :
            IF mk # "ok"
            THEN /\ Crash(mk)
                 /\ UNCHANGED <<io, ci, vi>>
            ELSE /\ io' = Append(io, Ev("makedirs", None,
                                        chapter_path(course.v, args, course.v[ci].key), <<>>))
                 /\ IF Len(course.v[ci].val) = 0
                    THEN /\ ci' = ci + 1
                         /\ UNCHANGED vi
                         /\ Continue("chapter")
                    ELSE /\ vi' = 1
                         /\ UNCHANGED ci
                         /\ Continue("video")
  /\ UNCHANGED <<args, json_data, course, login_resp, token, served, log,
                 filename, clean>>

\* lines 160-221, one turn of the loop over the videos of chapter ci
VideoStep ==
  /\ pc = "video"
  /\ \E resp \in VideoResponses :
     \E dl \in ToolOutcomes(resp) :
       LET chapter == course.v[ci].key
           chap == course.v[ci].val
           video == chap[vi].key
           cpath == chapter_path(course.v, args, chapter)
           fname == video_filename(chap, video)
           fpath == video_filepath(cpath, fname)
           id == DictGet(chap, video)
           r == video_body(resp, dl)
       IN /\ served' = Append(served, [ci |-> ci, vi |-> vi, id |-> id, resp |-> resp,
                                       dl |-> dl, chapter_path |-> cpath,
                                       filename |-> fname, exc |-> r.exc])
          /\ io' = (io \o <<Ev("POST_video", id, <<>>, <<>>)>>)
                    \o (IF r.invoked THEN <<Ev("ydl_download", id, fpath, r.url)>>
                        ELSE <<>>)
          /\ IF r.exc # "" /\ ~downloader_catches(r.exc)
             THEN /\ Crash(r.exc)
                  /\ log' = log \o RetryWarnings(resp)
                  /\ UNCHANGED <<ci, vi>>
             ELSE /\ log' = Append(log \o RetryWarnings(resp), video_log(r.exc, fname))
                  /\ IF vi < Len(chap)
                     THEN /\ vi' = vi + 1
                          /\ UNCHANGED ci
                          /\ Continue("video")
                     ELSE /\ ci' = ci + 1
                          /\ UNCHANGED vi
                          /\ Continue("chapter")
  /\ UNCHANGED <<args, json_data, course, login_resp, token, filename, clean>>

Next ==
  \/ CheckArgs
  \/ GetJson
  \/ GetCourse
  \/ Login
  \/ DownloaderStart
  \/ ChapterStep
  \/ VideoStep

Spec == Init /\ [][Next]_vars

-----------------------------------------------------------------------------
(* get_course alone, on every well-formed payload within the bounds,       *)
(* titles that collide after sanitizing included                           *)

CourseItemChoices == {<<"Video", 0>>, <<"Video", 1>>, <<"Video", 2>>, <<"Article", 0>>}

InitCourse ==
  /\ pc = "get_course"
  /\ IsPayload(json_data, {0, 1, 2}, CourseItemChoices)
  /\ args = Argv(2)
  /\ course = None
  /\ login_resp = None
  /\ token = None
  /\ ci = 0
  /\ vi = 0
  /\ served = <<>>
  /\ io = <<>>
  /\ log = <<>>
  /\ out = <<>>
  /\ ret = Unset
  /\ exit_status = Unset
  /\ uncaught = ""
  /\ filename = <<>>
  /\ clean = <<>>

ParseCourse ==
  /\ pc = "get_course"
  /\ LET r == get_course(json_data)
     IN /\ course' = r.val
        /\ log' = log \o r.logs
  /\ pc' = "parsed"
  /\ UNCHANGED <<args, json_data, login_resp, token, ci, vi, served, io, out, ret,
                 exit_status, uncaught, filename, clean>>

NextCourse == ParseCourse

SpecCourse == InitCourse /\ [][NextCourse]_vars

-----------------------------------------------------------------------------
(* sanitize_filename alone, on every string over SanAlphabet of length at  *)
(* most MaxLen, applied once and then again to its own result              *)

SanAlphabet == {"a", "Z", "7", " ", ".", "_", "/", "U+00E9"}

Strings(n) == UNION {[1..k -> SanAlphabet] : k \in 0..n}

InitSanitize ==
  /\ pc = "sanitize"
  /\ filename \in Strings(MaxLen)
  /\ clean = <<>>
  /\ args = Argv(2)
  /\ json_data = None
  /\ course = None
  /\ login_resp = None
  /\ token = None
  /\ ci = 0
  /\ vi = 0
  /\ served = <<>>
  /\ io = <<>>
  /\ log = <<>>
  /\ out = <<>>
  /\ ret = Unset
  /\ exit_status = Unset
  /\ uncaught = ""

\* clean is sanitize_filename(filename)
Sanitize ==
  /\ pc = "sanitize"
  /\ clean' = sanitize_filename(filename)
  /\ pc' = "sanitized"
  /\ UNCHANGED <<args, json_data, course, login_resp, token, ci, vi, served, io,
                 log, out, ret, exit_status, uncaught, filename>>

\* the result is sanitized again, as downloader does with the keys get_course made
Resanitize ==
  /\ pc = "sanitized"
  /\ filename' = clean
  /\ clean' = sanitize_filename(clean)
  /\ pc' = "resanitized"
  /\ UNCHANGED <<args, json_data, course, login_resp, token, ci, vi, served, io,
                 log, out, ret, exit_status, uncaught>>

NextSanitize == Sanitize \/ Resanitize

SpecSanitize == InitSanitize /\ [][NextSanitize]_vars

-----------------------------------------------------------------------------
(* Vocabulary of the properties *)

\* x[k] when x is an object holding k, None otherwise
Dig(x, k) == IF x.t = "dict" THEN (IF k \in DOMAIN x.v THEN x.v[k] ELSE None) ELSE None

IsNonEmptyStr(x) == x.t = "str" /\ Len(x.v) > 0

\* the answer is a 200 whose JSON body carries data.result.video.token, a string
HasStreamToken(resp) ==
  /\ resp.net = "ok"
  /\ resp.status = 200
  /\ IsNonEmptyStr(Dig(Dig(Dig(Dig(resp.body, k_data), k_result), k_video), k_token))

\* the answer is a 200 whose JSON body carries data.login.token, a non-empty string
HasLoginToken(resp) ==
  /\ resp.net = "ok"
  /\ resp.status = 200
  /\ IsNonEmptyStr(Dig(Dig(Dig(resp.body, k_data), k_login), k_token))

\* the login request was answered with a 200 and a JSON body without a token
OmitsLoginToken(resp) ==
  /\ resp.net = "ok"
  /\ resp.status = 200
  /\ resp.body.t # "notjson"
  /\ ~HasLoginToken(resp)

OpsOf(op) == SelectSeq(io, LAMBDA e : e.op = op)
AuthOps == {"prompt_username", "prompt_password", "POST_login"}
DownloadOps == {"makedirs", "POST_video", "ydl_download"}
Entered == \E i \in DOMAIN io : io[i].op = "makedirs"
Printed(msg) == \E i \in DOMAIN out : out[i] = msg
Logged(msg) == \E i \in DOMAIN log : log[i].msg = msg
LoginDone == "net" \in DOMAIN login_resp

\* main called downloader: it does so exactly when get_token returned a
\* token that is not empty
DownloaderCalled == Truthy(token)

\* the videos of a course in course order: [ci, vi, id]
RECURSIVE FlatVideos(_, _, _)
FlatVideos(crs, k, j) ==
  IF k > Len(crs) THEN <<>>
  ELSE IF j > Len(crs[k].val) THEN FlatVideos(crs, k + 1, 1)
  ELSE <<[ci |-> k, vi |-> j, id |-> crs[k].val[j].val]>> \o FlatVideos(crs, k, j + 1)

Ids(seq) == [i \in 1..Len(seq) |-> seq[i].id]
CountId(seq, id) == Cardinality({i \in DOMAIN seq : seq[i].id = id})

\* the log lines downloader wrote, one per video processed
DlLog == SelectSeq(log, LAMBDA l : l.name # <<>>)

-----------------------------------------------------------------------------
\* the videos processed so far are a prefix of the course in course order
\* with one resolution request each; every video whose request returned a
\* stream token got exactly one download-tool invocation, no video more than
\* one, in course order
ProcessedInOrder ==
  LET exp == FlatVideos(course.v, 1, 1)
      posts == OpsOf("POST_video")
      ydl == OpsOf("ydl_download")
  IN /\ Len(served) <= Len(exp)
     /\ \A i \in DOMAIN served :
          served[i].id = exp[i].id /\ served[i].ci = exp[i].ci /\ served[i].vi = exp[i].vi
     /\ Ids(posts) = Ids(served)
     /\ \A i \in DOMAIN served :
          /\ CountId(ydl, served[i].id) <= 1
          /\ HasStreamToken(served[i].resp) => CountId(ydl, served[i].id) = 1
     /\ \A a, b \in DOMAIN ydl :
          a < b => \E i, j \in DOMAIN served :
                     i < j /\ served[i].id = ydl[a].id /\ served[j].id = ydl[b].id

\* a run that returned from downloader processed every video and printed
\* line 249
CompletedAll ==
  /\ Len(served) = Len(FlatVideos(course.v, 1, 1))
  /\ ret = None
  /\ out[Len(out)] = "Download complete!"

\* the video the loop is at is the one that follows, in course order, the
\* videos processed so far
NextInOrder ==
  pc = "video" =>
    LET exp == FlatVideos(course.v, 1, 1)
    IN /\ Len(served) < Len(exp)
       /\ exp[Len(served) + 1].ci = ci
       /\ exp[Len(served) + 1].vi = vi

(* C1: a failed resolution request (network error, HTTP error status)      *)
(* does not abort the loop of downloader: the step that processes a video, *)
(* whatever the answer to its request, leaves the loop at the next video   *)
(* or chapter; the videos processed so far are exactly a prefix of the     *)
(* course in course order with one resolution request each, and the loop   *)
(* is at the video that follows them; every video whose request returned a *)
(* stream token got exactly one download-tool invocation (and no video     *)
(* more than one), in course order; and when downloader has returned,      *)
(* every video was processed and main printed "Download complete!".        *)
C1_FailuresDoNotAbort ==
  /\ [](Entered => (ProcessedInOrder /\ NextInOrder /\ (pc = "exited" => CompletedAll)))
  /\ [][pc = "video" => pc' \in {"video", "chapter"}]_vars

\* in a chapter of two videos the resolution of video 1 failed with a
\* connection error, video 2 was resolved and downloaded, and the run ended
C1_Witness ==
  /\ pc = "exited"
  /\ Len(served) = 2
  /\ served[2].ci = 1
  /\ served[1].resp.net = "ConnectionError"
  /\ served[1].exc = "ConnectionError"
  /\ served[2].exc = ""
  /\ HasStreamToken(served[2].resp)
  /\ Len(OpsOf("ydl_download")) = 1
  /\ Printed("Download complete!")

-----------------------------------------------------------------------------
(* C2: the prompts and the login request happen only after get_json and    *)
(* get_course both returned a result main accepts, and before any          *)
(* directory creation, video resolution or download; a run whose page      *)
(* retrieval or course parsing failed (a page without an application/json  *)
(* element included) performs nothing but the page request.                *)
C2_PromptAfterParse ==
  /\ \A i \in DOMAIN io :
       io[i].op \in AuthOps =>
         /\ Truthy(json_data)
         /\ Truthy(course)
         /\ \A j \in 1..i : io[j].op \notin DownloadOps
  /\ \A i \in DOMAIN io :
       io[i].op \in DownloadOps =>
         \E j \in 1..(i - 1) :
           /\ j > 2
           /\ io[j].op = "POST_login"
           /\ io[j - 1].op = "prompt_password"
           /\ io[j - 2].op = "prompt_username"
  /\ (pc = "exited" /\ (~Truthy(json_data) \/ ~Truthy(course))) =>
       \A i \in DOMAIN io : io[i].op = "GET"
  /\ Logged("No JSON data found at URL") =>
       /\ pc = "exited"
       /\ ret = PyInt(-1)
       /\ \A i \in DOMAIN io : io[i].op = "GET"

\* a run that prompted, logged in and went on to invoke the download tool
C2_Witness ==
  /\ \E i \in DOMAIN io : io[i].op = "prompt_password"
  /\ \E i \in DOMAIN io : io[i].op = "ydl_download"
  /\ pc = "exited"

-----------------------------------------------------------------------------
(* C3: when the login answer is a JSON body without a usable token (token  *)
(* absent, null or empty, or the login or data object absent or null),     *)
(* get_token returns None and raises nothing, and main ends the run with   *)
(* the login-failure message and return value -1, having created no        *)
(* directory, requested no video and invoked no download.                  *)
C3_NoTokenNoDownload ==
  (LoginDone /\ OmitsLoginToken(login_resp)) =>
    /\ get_token(login_resp).exc = ""
    /\ get_token(login_resp).val = None
    /\ token = None
    /\ pc = "exited"
    /\ ret = PyInt(-1)
    /\ out[Len(out)] = "Failed to login. Check credentials or logs for more information."
    /\ \A i \in DOMAIN io : io[i].op \notin DownloadOps

\* the login answer held a login object with no token key
C3_Witness ==
  /\ LoginDone
  /\ login_resp = Http(200, LoginBody(Obj(k_errors, PyList(<<>>))))
  /\ pc = "exited"

-----------------------------------------------------------------------------
(* C4: the exit status of the script is non-zero when the argument count   *)
(* is wrong or JSON retrieval, course parsing or authentication failed,    *)
(* and zero, after "Download complete!", in every other run.               *)
C4_ExitStatus ==
  pc = "exited" =>
    IF Printed("Download complete!")
    THEN exit_status = PyInt(0)
    ELSE exit_status.v # 0

-----------------------------------------------------------------------------
(* C5: a course get_course parsed with zero chapters, or with a chapter    *)
(* without videos, is not turned away as a course-parsing failure: the run *)
(* goes on to the login, and once logged in it completes normally without  *)
(* a download attempt for the empty parts.                                 *)
C5_EmptyCourseValid ==
  (pc \notin {"main", "get_json", "get_course"} /\ course.t = "odict"
     /\ (Len(course.v) = 0 \/ \E k \in DOMAIN course.v : Len(course.v[k].val) = 0)) =>
    /\ ~Printed("Failed to parse course data. Check logs for more information.")
    /\ (pc = "exited" => LoginDone)
    /\ (pc = "exited" /\ Truthy(token)) => (ret = None /\ Printed("Download complete!"))
    /\ \A i \in DOMAIN served : Len(course.v[served[i].ci].val) > 0

-----------------------------------------------------------------------------
(* C6: for every well-formed payload with n chapters, chapter k holding    *)
(* m_k Video items, get_course returns a Course of exactly n keys in       *)
(* document order, the k-th value holding exactly m_k entries in document  *)
(* order, each the sanitized title of a Video item mapped to its id.       *)
C6_OneKeyPerChapter ==
  pc = "parsed" =>
    LET chapters == ChaptersOf(json_data)
    IN /\ course.t = "odict"
       /\ Len(course.v) = Len(chapters)
       /\ \A k \in DOMAIN chapters :
            LET videos == VideosOf(chapters[k])
                chap == course.v[k].val
            IN /\ course.v[k].key = sanitize_filename(chapters[k].v[k_title].v)
               /\ Len(chap) = Len(videos)
               /\ \A j \in DOMAIN videos :
                    /\ chap[j].key = sanitize_filename(videos[j].v[k_title].v)
                    /\ chap[j].val = videos[j].v[k_id]

-----------------------------------------------------------------------------
\* the directories created and the stems computed so far follow the
\* numbered layout
LayoutSoFar ==
  LET mk == OpsOf("makedirs")
      dirs == Tail(mk)
  IN /\ mk[1].path = <<download_path(args)>>
     /\ Len(dirs) <= Len(course.v)
     /\ \A k \in DOMAIN dirs :
          dirs[k].path = <<download_path(args),
                           Digits(k) \o <<".", " ">> \o sanitize_filename(course.v[k].key)>>
     /\ \A a, b \in DOMAIN dirs : a # b => dirs[a].path # dirs[b].path
     /\ \A i \in DOMAIN served :
          /\ served[i].ci \in DOMAIN dirs
          /\ served[i].vi \in DOMAIN course.v[served[i].ci].val
          /\ served[i].chapter_path = dirs[served[i].ci].path
          /\ served[i].filename =
               Digits(served[i].vi) \o <<".", " ">>
                 \o sanitize_filename(course.v[served[i].ci].val[served[i].vi].key)
     /\ \A a, b \in DOMAIN served :
          (a # b /\ served[a].ci = served[b].ci) => served[a].filename # served[b].filename
     /\ \A i \in DOMAIN io :
          io[i].op = "ydl_download" =>
            \E n \in DOMAIN served :
              /\ served[n].id = io[i].id
              /\ io[i].path = Append(served[n].chapter_path,
                                     served[n].filename \o <<".", "%(ext)s">>)

\* every chapter has its directory and every video its stem
LayoutComplete ==
  /\ Entered
  /\ Len(OpsOf("makedirs")) = Len(course.v) + 1
  /\ Len(served) = Len(FlatVideos(course.v, 1, 1))

(* C7: downloader creates exactly one directory per chapter under the     *)
(* destination root, the k-th named "{k}. {sanitized chapter title}", and  *)
(* computes exactly one filename stem per video in its chapter's           *)
(* directory, the j-th video of a chapter named                            *)
(* "{j}. {sanitized video title}"; the directories of distinct chapters    *)
(* differ and so do the stems of distinct videos of a chapter.  Every      *)
(* chapter the loop has reached has its one directory, and when downloader *)
(* has returned every chapter has its directory and every video its stem.  *)
C7_NumberedLayout ==
  /\ Entered => LayoutSoFar
  /\ pc = "video" => Len(OpsOf("makedirs")) = ci + 1
  /\ pc = "chapter" => Len(OpsOf("makedirs")) = ci
  /\ (DownloaderCalled /\ pc = "exited") => LayoutComplete

\* a finished run over two chapters of one video each
C7_Witness ==
  /\ pc = "exited"
  /\ Entered
  /\ Len(course.v) = 2
  /\ Len(served) = 2
  /\ served[2].ci = 2
  /\ served[2].chapter_path[2] = <<"2", ".", " ", "C", "_", "2">>
  /\ served[2].filename = <<"1", ".", " ", "v", "_", "1">>

-----------------------------------------------------------------------------
(* C8 as stated: sanitize_filename replaces each character outside         *)
(* [A-Za-z0-9 ._] with '_' and leaves the others unchanged, so the result  *)
(* has the length of the input, holds only characters of [A-Za-z0-9 ._],   *)
(* and sanitizing it again changes nothing.                                *)
AsciiAllowed == AsciiLetters \cup AsciiDigits \cup {" ", ".", "_"}

C8_AsciiOnly ==
  /\ pc = "sanitized" =>
       /\ Len(clean) = Len(filename)
       /\ \A i \in DOMAIN filename :
            /\ clean[i] = (IF filename[i] \in AsciiAllowed THEN filename[i] ELSE "_")
            /\ clean[i] \in AsciiAllowed
  /\ pc = "resanitized" => clean = filename

(* C8 as amended: sanitize_filename replaces with '_' each character that  *)
(* is neither alphanumeric in the sense of str.isalnum (which holds of     *)
(* letters and digits outside ASCII too) nor one of ' ', '.', '_', and     *)
(* leaves every other character unchanged; the result has the length of    *)
(* the input, holds only such characters, and sanitizing it again changes  *)
(* nothing.                                                                *)
C8_SanitizeAlnum ==
  /\ pc = "sanitized" =>
       /\ Len(clean) = Len(filename)
       /\ \A i \in DOMAIN filename :
            /\ (isalnum(filename[i]) \/ filename[i] \in {" ", ".", "_"}) => clean[i] = filename[i]
            /\ ~(isalnum(filename[i]) \/ filename[i] \in {" ", ".", "_"}) => clean[i] = "_"
            /\ clean[i] \in AsciiAllowed \cup UnicodeAlnum
  /\ pc = "resanitized" => clean = filename

\* a string with a replaced character and a kept non-ASCII letter, sanitized twice
C8_Witness ==
  /\ pc = "resanitized"
  /\ filename = <<"a", "_", "U+00E9">>
  /\ clean = <<"a", "_", "U+00E9">>

-----------------------------------------------------------------------------
(* C9: whenever the resolution request or the download tool fails for a    *)
(* video, downloader writes an error log line naming that video and no     *)
(* "Successfully downloaded" line for it.                                  *)
C9_FailuresLogged ==
  \A i \in DOMAIN served :
    (~HasStreamToken(served[i].resp) \/ served[i].dl \in DlOutcomes \ {"ok"}) =>
      /\ i \in DOMAIN DlLog
      /\ DlLog[i].name = served[i].filename
      /\ DlLog[i].level = "ERROR"
      /\ DlLog[i].msg # "Successfully downloaded"

-----------------------------------------------------------------------------
(* C10: when the answer to the video-authorization request is a JSON body  *)
(* without the nested stream token (data, result or video missing or null, *)
(* token absent or null), a failure is logged for the video, no manifest   *)
(* URL is built and the download tool is not invoked for it, and the loop  *)
(* goes on: the exception of the missing field does not leave downloader.  *)
C10_MalformedNotDownloaded ==
  /\ pc = "crashed" => uncaught \in MakedirsErrors \cup PromptErrors
  /\ \A i \in DOMAIN served :
       (served[i].resp.net = "ok" /\ served[i].resp.status = 200
          /\ served[i].resp.body.t # "notjson" /\ ~HasStreamToken(served[i].resp)) =>
         /\ i \in DOMAIN DlLog
         /\ DlLog[i].level = "ERROR"
         /\ DlLog[i].name = served[i].filename
         /\ CountId(OpsOf("ydl_download"), served[i].id) = 0

====
